---- MODULE Spec2Model ----
(***************************************************************************)
(* A model of nasa_power_data_fetcher.py: main() loads the configuration,  *)
(* fetch_all_data() assembles and saves one dataset per site, and          *)
(* create_combined_file() assembles every site again and saves the         *)
(* combined dataset.  The NASA POWER API and the configuration file are    *)
(* the environment: every response is chosen nondeterministically.         *)
(*                                                                         *)
(* Encodings.  Python's None is the empty set and a present value x is the *)
(* singleton {x}.  A dict is the sequence of its items in insertion order. *)
(* A date string 'YYYYMMDD' is the sequence of its eight digits, a pandas  *)
(* timestamp is the triple <<year, month, day>>.                           *)
(***************************************************************************)
EXTENDS Integers, Sequences, FiniteSets, TLC

VARIABLES
    sites,          \* config['sites']
    years,          \* config['years']
    pc,             \* where main() stands
    pass,           \* "fetch_all_data" or "create_combined_file"
    si,             \* index of the current site in sites
    yi,             \* index of the current year in years
    raw_data,       \* what _fetch_data returned for the current year
    all_data,       \* _process_site_data's list of rows
    files,          \* site code -> rows of its CSV file, None when not written
    all_sites_data, \* create_combined_file's list of non-empty site frames
    combined,       \* rows of the combined CSV file, None when not written
    exitCode,       \* the process's exit status, None while it runs
    log,            \* every time.sleep and session.get so far, in order
    returned        \* every frame _process_site_data returned so far

vars == <<sites, years, pc, pass, si, yi, raw_data, all_data, files,
          all_sites_data, combined, exitCode, log, returned>>

----------------------------------------------------------------------------
(* Bounds of the model *)

\* The (site, year) pairs of a configuration
MaxPairs == 2
\* The parameters of a response
MaxParams == 2
\* The dates of one parameter of a response
MaxDates == 2

SiteCodes == {"A", "B"}
YearValues == {2020, 2021}

----------------------------------------------------------------------------
(* Python values *)

None == {}
Some(x) == {x}
TheValue(opt) == CHOOSE x \in opt : TRUE

\* list(d.keys())
Keys(d) == [i \in 1..Len(d) |-> d[i].key]

\* k in d
Has(d, k) == \E i \in 1..Len(d) : d[i].key = k

\* d[k], for k in d
Item(d, k) == d[CHOOSE i \in 1..Len(d) : d[i].key = k].val

\* d.get(k)
Get(d, k) == IF Has(d, k) THEN Some(Item(d, k)) ELSE None

RECURSIVE Flatten(_)
Flatten(ss) == IF ss = <<>> THEN <<>> ELSE Head(ss) \o Flatten(Tail(ss))

Range(s) == {s[i] : i \in 1..Len(s)}

\* The lists over S of length at most n
RECURSIVE Lists(_, _)
Lists(S, n) ==
    IF n = 0 THEN {<<>>}
    ELSE Lists(S, n - 1) \cup {Append(s, x) : s \in Lists(S, n - 1), x \in S}

\* The lists over S of length at most n that repeat no element
Injections(S, n) ==
    {s \in Lists(S, n) : \A i, j \in 1..Len(s) : s[i] = s[j] => i = j}

\* The dicts with keys from K, at most n of them, and values from V
Dicts(K, n, V) ==
    UNION {{[i \in 1..Len(ks) |-> [key |-> ks[i], val |-> f[i]]] :
               f \in [1..Len(ks) -> V]} : ks \in Injections(K, n)}

\* int(s) of a string of digits
RECURSIVE IntOf(_)
IntOf(s) == IF s = <<>> THEN 0 ELSE 10 * IntOf(SubSeq(s, 1, Len(s) - 1)) + s[Len(s)]

\* f"{n}" of a natural number
RECURSIVE StrOf(_)
StrOf(n) == IF n < 10 THEN <<n>> ELSE Append(StrOf(n \div 10), n % 10)

----------------------------------------------------------------------------
(* Configuration *)

\* config[site_code]
SiteInfo(site_code) ==
    IF site_code = "A"
    THEN [lat |-> 35, long |-> 97, POINTS |-> "north"]
    ELSE [lat |-> 36, long |-> 98, POINTS |-> "south"]

\* The order of str: "A" < "B"
CodeRank(site_code) == IF site_code = "A" THEN 1 ELSE 2

\* The configurations: the site codes listed once each, the years in any order
\* and possibly repeated, MaxPairs (site, year) pairs at most
Configs ==
    {c \in Injections(SiteCodes, MaxPairs) \X Lists(YearValues, MaxPairs) :
        /\ c[1] # <<>>
        /\ c[2] # <<>>
        /\ Len(c[1]) * Len(c[2]) <= MaxPairs}

----------------------------------------------------------------------------
(* The request and the API *)

SleepSeconds == 1
RequestTimeout == 30
MissingValue == -999

\* The query parameters of the URL; the configuration asks for the parameter T2M
_build_api_url(site_info, year) ==
    [parameters |-> <<"T2M">>,
     longitude |-> site_info.long,
     latitude  |-> site_info.lat,
     start     |-> StrOf(year) \o <<0, 1, 0, 1>>,
     end       |-> StrOf(year) \o <<1, 2, 3, 1>>,
     format    |-> "json"]

\* The dates the model's API knows: the first and the last day of each year
ApiDates == {StrOf(y) \o d : y \in YearValues, d \in {<<0, 1, 0, 1>>, <<1, 2, 3, 1>>}}

\* The API answers with dates from start to end
DatesOf(request) ==
    {d \in ApiDates : IntOf(request.start) <= IntOf(d) /\ IntOf(d) <= IntOf(request.end)}

\* The API's observation for a date: a reading on 1 January, missing on 31 December
Observed(d) == IF IntOf(SubSeq(d, 5, 8)) = 101 THEN 7 ELSE MissingValue

\* One parameter's date -> value dict: none of the requested days, or all of
\* them in any key order
SeriesOf(request) ==
    {[i \in 1..Len(ks) |-> [key |-> ks[i], val |-> Observed(ks[i])]] :
        ks \in {<<>>} \cup {p \in Injections(DatesOf(request), Cardinality(DatesOf(request))) :
                              Len(p) = Cardinality(DatesOf(request))}}

\* The JSON body {"properties": {"parameter": parameters}}
Body(parameters) ==
    <<[key |-> "properties", val |-> <<[key |-> "parameter", val |-> parameters]>>]>>

\* A response: session.get raised or not, the HTTP status, and the decoded body
\* (None when the body is not JSON)
GoodResponse(parameters) == [raises |-> FALSE, status |-> 200, json |-> Some(Body(parameters))]

BadResponses ==
    {[raises |-> TRUE,  status |-> 0,   json |-> None],
     [raises |-> FALSE, status |-> 500, json |-> None],
     [raises |-> FALSE, status |-> 200, json |-> None],
     [raises |-> FALSE, status |-> 200, json |-> Some(<<>>)],
     [raises |-> FALSE, status |-> 200,
      json |-> Some(<<[key |-> "properties", val |-> <<>>]>>)]}

\* What the API may answer to a request for the parameter T2M
Responses(request) ==
    BadResponses
    \cup {GoodResponse(<<>>)}
    \cup {GoodResponse(<<[key |-> "T2M", val |-> series]>>) : series \in SeriesOf(request)}

_fetch_data(response) ==
    IF response.raises THEN None
    ELSE IF response.status >= 400 THEN None
    ELSE IF response.json = None THEN None
    ELSE LET data == TheValue(response.json)
         IN  IF ~Has(data, "properties") \/ ~Has(Item(data, "properties"), "parameter")
             THEN None
             ELSE Some(data)

\* raw_data['properties']['parameter']
ParametersOf(data) == Item(Item(data, "properties"), "parameter")

----------------------------------------------------------------------------
(* Rows *)

param_mapping ==
    <<[key |-> "T2M",               val |-> "air_temp_c"],
      [key |-> "T2M_MAX",           val |-> "air_temp_max_c"],
      [key |-> "T2MDEW",            val |-> "dewpoint_temp_c"],
      [key |-> "ALLSKY_SFC_SW_DWN", val |-> "solar_radiation_kwh_m2"],
      [key |-> "WS2M",              val |-> "wind_speed_ms"],
      [key |-> "WS2M_MAX",          val |-> "wind_speed_max_ms"],
      [key |-> "WD2M",              val |-> "wind_direction_deg"],
      [key |-> "WD2M_MAX",          val |-> "wind_direction_max_deg"],
      [key |-> "CLOUD_AMT_DAY",     val |-> "cloud_cover_pct"],
      [key |-> "PRECTOTCORR",       val |-> "precipitation_mm"]>>

WeatherCols == {param_mapping[i].val : i \in 1..Len(param_mapping)}
SiteCols == {"site_code", "points", "latitude", "longitude", "date", "year", "month", "day"}

\* A variant of Cell: -999 is copied like any other value
Cell_KeepsMissingValue(parameters, nasa_param, date_str) ==
    IF Has(parameters, nasa_param)
    THEN Get(Item(parameters, nasa_param), date_str)
    ELSE None

\* The value of one weather column of a row
Cell(parameters, nasa_param, date_str) ==
    IF Has(parameters, nasa_param)
    THEN LET value == Get(Item(parameters, nasa_param), date_str)
         IN  IF value = Some(MissingValue) THEN None ELSE value
    ELSE None

\* The parameter each weather column is filled from
SourceOf ==
    [c \in WeatherCols |->
        param_mapping[CHOOSE i \in 1..Len(param_mapping) : param_mapping[i].val = c].key]

\* The row of one date
Row(site_code, parameters, date_str) ==
    LET site_info == SiteInfo(site_code)
    IN  [c \in SiteCols \cup WeatherCols |->
            CASE c = "site_code" -> site_code
              [] c = "points"    -> site_info.POINTS
              [] c = "latitude"  -> site_info.lat
              [] c = "longitude" -> site_info.long
              [] c = "date"      -> date_str
              [] c = "year"      -> IntOf(SubSeq(date_str, 1, 4))
              [] c = "month"     -> IntOf(SubSeq(date_str, 5, 6))
              [] c = "day"       -> IntOf(SubSeq(date_str, 7, 8))
              [] OTHER           -> Cell(parameters, SourceOf[c], date_str)]

\* A variant of DatesToProcess: the dates of the last parameter
DatesToProcess_Last(parameters) == Keys(parameters[Len(parameters)].val)

\* The dates of the first parameter; the parameters are not empty
DatesToProcess(parameters) == Keys(parameters[1].val)

\* The rows of one response
Rows(site_code, parameters) ==
    LET dates == DatesToProcess(parameters)
    IN  [i \in 1..Len(dates) |-> Row(site_code, parameters, dates[i])]

----------------------------------------------------------------------------
(* Frames *)

\* pd.to_datetime(date_str, format='%Y%m%d')
ToDatetime(date_str) ==
    <<IntOf(SubSeq(date_str, 1, 4)), IntOf(SubSeq(date_str, 5, 6)), IntOf(SubSeq(date_str, 7, 8))>>

\* a < b for two keys of the same length, column by column
KeyLess(a, b) ==
    \E i \in 1..Len(a) : a[i] < b[i] /\ \A j \in 1..(i - 1) : a[j] = b[j]

\* df.sort_values(...).reset_index(drop=True), keys[i] the sort key of rows[i];
\* rows with equal keys keep their order
SortBy(rows, keys) ==
    LET n == Len(rows)
        pos == [i \in 1..n |-> 1 + Cardinality({j \in 1..n :
                                   \/ KeyLess(keys[j], keys[i])
                                   \/ keys[j] = keys[i] /\ j < i})]
    IN  [k \in 1..n |-> rows[CHOOSE i \in 1..n : pos[i] = k]]

\* The key of sort_values(['date'])
DateKey(row) == row.date

\* The key of sort_values(['site_code', 'date'])
SiteDateKey(row) == <<CodeRank(row.site_code)>> \o row.date

\* The frame _process_site_data returns
SiteFrame(rows) ==
    IF rows = <<>> THEN <<>>
    ELSE LET df == [i \in 1..Len(rows) |-> [rows[i] EXCEPT !.date = ToDatetime(@)]]
         IN  SortBy(df, [i \in 1..Len(df) |-> DateKey(df[i])])

\* pd.concat(...).sort_values(['site_code', 'date'])
CombinedFrame(frames) ==
    LET df == Flatten(frames)
    IN  SortBy(df, [i \in 1..Len(df) |-> SiteDateKey(df[i])])

----------------------------------------------------------------------------
(* main() *)

\* A variant of ExitStatus: KeyboardInterrupt is handled like any exception
ExitStatus_AlwaysFailure(exception) == 1

\* The exit status main() ends with when this exception reaches it: it catches
\* KeyboardInterrupt and Exception; _load_config's SystemExit(1) passes through
ExitStatus(exception) ==
    IF exception = "KeyboardInterrupt" THEN 0 ELSE 1

\* main() has ended: it returned, _load_config exited, an exception reached
\* main(), or the user interrupted it
Ended == {"done", "config_error", "crashed", "interrupted"}

SleepEvent == [op |-> "sleep", arg |-> SleepSeconds, pass |-> pass,
               site |-> sites[si], year |-> years[yi], result |-> None]

GetEvent(result) == [op |-> "get", arg |-> RequestTimeout, pass |-> pass,
                     site |-> sites[si], year |-> years[yi], result |-> result]

\* Where the loop over the years goes after the current year
AfterYear == IF yi < Len(years) THEN "sleep" ELSE "finish_site"

\* A variant of AfterFetch: a failed fetch ends the site's loop (break for continue)
AfterFetch_Break(result) == IF result = None THEN "finish_site" ELSE "process_rows"

\* A variant of AfterFetch: a failed fetch is tried again at once, without the sleep
AfterFetch_Retry(result) == IF result = None THEN "fetch" ELSE "process_rows"

\* Where _process_site_data goes after _fetch_data returned
AfterFetch(result) == IF result = None THEN AfterYear ELSE "process_rows"

\* all_data after the rows of a response are appended
Extend(rows, site_code, parameters) == rows \o Rows(site_code, parameters)

\* A variant of SaveSite: the file is written for an empty frame too
SaveSite_Always(written, site_code, site_df) ==
    [written EXCEPT ![site_code] = Some(site_df)]

\* fetch_all_data: the site's file after its frame is there
SaveSite(written, site_code, site_df) ==
    IF site_df = <<>> THEN written ELSE [written EXCEPT ![site_code] = Some(site_df)]

\* A variant of CollectSite: the list is replaced, not appended to
CollectSite_KeepsLast(frames, site_df) ==
    IF site_df # <<>> THEN <<site_df>> ELSE frames

\* create_combined_file: all_sites_data after a site's frame is there
CollectSite(frames, site_df) ==
    IF site_df # <<>> THEN Append(frames, site_df) ELSE frames

\* create_combined_file: the combined file
SaveCombined(frames) ==
    IF frames # <<>> THEN Some(CombinedFrame(frames)) ELSE None

Init ==
    /\ \E c \in Configs : sites = c[1] /\ years = c[2]
    /\ pc = "load_config"
    /\ pass = "fetch_all_data"
    /\ si = 1
    /\ yi = 1
    /\ raw_data = None
    /\ all_data = <<>>
    /\ files = [s \in SiteCodes |-> None]
    /\ all_sites_data = <<>>
    /\ combined = None
    /\ exitCode = None
    /\ log = <<>>
    /\ returned = <<>>

\* NASAPowerDataFetcher(): the configuration file loads, is missing, or is no YAML
LoadConfig ==
    /\ pc = "load_config"
    /\ \E outcome \in {"ok", "FileNotFoundError", "YAMLError"} :
          IF outcome = "ok"
          THEN pc' = "sleep" /\ exitCode' = exitCode
          ELSE pc' = "config_error" /\ exitCode' = Some(ExitStatus("SystemExit"))
    /\ UNCHANGED <<sites, years, pass, si, yi, raw_data, all_data, files,
                   all_sites_data, combined, log, returned>>

\* time.sleep(1)
Sleep ==
    /\ pc = "sleep"
    /\ log' = Append(log, SleepEvent)
    /\ pc' = "fetch"
    /\ UNCHANGED <<sites, years, pass, si, yi, raw_data, all_data, files,
                   all_sites_data, combined, exitCode, returned>>

\* raw_data = self._fetch_data(site_code, year), and the continue when it is None
FetchData ==
    /\ pc = "fetch"
    /\ \E response \in Responses(_build_api_url(SiteInfo(sites[si]), years[yi])) :
          LET result == _fetch_data(response)
          IN  /\ raw_data' = result
              /\ log' = Append(log, GetEvent(result))
              /\ pc' = AfterFetch(result)
              /\ yi' = IF pc' = "sleep" THEN yi + 1 ELSE yi
    /\ UNCHANGED <<sites, years, pass, si, all_data, files,
                   all_sites_data, combined, exitCode, returned>>

\* The rows of the response: list(parameters.keys())[0] raises IndexError when
\* there is no parameter, and the exception reaches main()
ProcessRows ==
    /\ pc = "process_rows"
    /\ LET parameters == ParametersOf(TheValue(raw_data))
       IN  \/ /\ parameters = <<>>
              /\ pc' = "crashed"
              /\ exitCode' = Some(ExitStatus("IndexError"))
              /\ UNCHANGED <<yi, all_data>>
           \/ /\ parameters # <<>>
              /\ all_data' = Extend(all_data, sites[si], parameters)
              /\ pc' = AfterYear
              /\ yi' = IF pc' = "sleep" THEN yi + 1 ELSE yi
              /\ UNCHANGED exitCode
    /\ UNCHANGED <<sites, years, pass, si, raw_data, files,
                   all_sites_data, combined, log, returned>>

\* _process_site_data returns the site's frame; fetch_all_data saves it,
\* create_combined_file collects it; then the next site, or the next pass
FinishSite ==
    /\ pc = "finish_site"
    /\ LET site_df == SiteFrame(all_data)
       IN  /\ returned' = Append(returned, [pass |-> pass, site |-> sites[si], df |-> site_df])
           /\ IF pass = "fetch_all_data"
              THEN /\ files' = SaveSite(files, sites[si], site_df)
                   /\ UNCHANGED all_sites_data
              ELSE /\ all_sites_data' = CollectSite(all_sites_data, site_df)
                   /\ UNCHANGED files
    /\ IF si < Len(sites)
       THEN si' = si + 1 /\ pass' = pass /\ pc' = "sleep"
       ELSE IF pass = "fetch_all_data"
            THEN si' = 1 /\ pass' = "create_combined_file" /\ pc' = "sleep"
            ELSE si' = si /\ pass' = pass /\ pc' = "combine"
    /\ yi' = 1
    /\ all_data' = <<>>
    /\ UNCHANGED <<sites, years, raw_data, combined, exitCode, log>>

\* create_combined_file saves the combined frame and main() returns
WriteCombined ==
    /\ pc = "combine"
    /\ combined' = SaveCombined(all_sites_data)
    /\ pc' = "done"
    /\ exitCode' = Some(0)
    /\ UNCHANGED <<sites, years, pass, si, yi, raw_data, all_data, files,
                   all_sites_data, log, returned>>

\* Ctrl-C while main() runs
Interrupt ==
    /\ pc \notin Ended
    /\ pc' = "interrupted"
    /\ exitCode' = Some(ExitStatus("KeyboardInterrupt"))
    /\ UNCHANGED <<sites, years, pass, si, yi, raw_data, all_data, files,
                   all_sites_data, combined, log, returned>>

Next ==
    \/ LoadConfig
    \/ Sleep
    \/ FetchData
    \/ ProcessRows
    \/ FinishSite
    \/ WriteCombined
    \/ Interrupt

Spec == Init /\ [][Next]_vars

----------------------------------------------------------------------------
(* The rows of one response, for any shape of response *)

ParamNames == {"T2M", "PRECTOTCORR", "QV2M"}
ApiValues == {MissingValue, 7}

\* Any parameters: mapped and unmapped names, in any order, each with any
\* dates of the requested year, in any order, and any values
AnyParameters(request) ==
    Dicts(ParamNames, MaxParams, Dicts(DatesOf(request), MaxDates, ApiValues))

\* _process_site_data holds a response for the one year of one site
InitRows ==
    /\ \E s \in SiteCodes, y \in YearValues :
          /\ sites = <<s>>
          /\ years = <<y>>
          /\ \E parameters \in AnyParameters(_build_api_url(SiteInfo(s), y)) :
                LET result == _fetch_data(GoodResponse(parameters))
                IN  /\ raw_data = result
                    /\ log = <<[op |-> "sleep", arg |-> SleepSeconds, pass |-> "fetch_all_data",
                                site |-> s, year |-> y, result |-> None],
                               [op |-> "get", arg |-> RequestTimeout, pass |-> "fetch_all_data",
                                site |-> s, year |-> y, result |-> result]>>
    /\ pc = "process_rows"
    /\ pass = "fetch_all_data"
    /\ si = 1
    /\ yi = 1
    /\ all_data = <<>>
    /\ files = [s \in SiteCodes |-> None]
    /\ all_sites_data = <<>>
    /\ combined = None
    /\ exitCode = None
    /\ returned = <<>>

NextRows == ProcessRows

SpecRows == InitRows /\ [][NextRows]_vars

----------------------------------------------------------------------------
(* Properties *)

Last(s) == s[Len(s)]

\* The session.get calls of one pass for one site, in order
GetsOf(p, s) ==
    LET IsGet(e) == e.op = "get" /\ e.pass = p /\ e.site = s
    IN  SelectSeq(log, IsGet)

\* The rows a list of session.get calls contributes when each failed one is left out
RECURSIVE RowsOfGets(_)
RowsOfGets(gets) ==
    IF gets = <<>> THEN <<>>
    ELSE LET e == Head(gets)
         IN  (IF e.result = None THEN <<>>
              ELSE Rows(e.site, ParametersOf(TheValue(e.result))))
             \o RowsOfGets(Tail(gets))

IsFailedGet(e) == e.op = "get" /\ e.result = None

IsEmptyGet(e) ==
    e.op = "get" /\ e.result # None /\ ParametersOf(TheValue(e.result)) = <<>>

\* C1: a (site, year) pair whose fetch fails does not end the run, the next
\* pair is fetched, the failed pair gives no row, and the site's frame is the
\* one its other pairs give without it.
C1_FailedPairIsSkipped ==
    /\ \A r \in BadResponses : _fetch_data(r) = None
    /\ (log # <<>> /\ IsFailedGet(Last(log))) =>
          /\ pc \in {"sleep", "finish_site", "combine", "done", "interrupted"}
          /\ exitCode # Some(1)
    /\ \A i \in 1..Len(returned) :
          LET gets == GetsOf(returned[i].pass, returned[i].site)
          IN  /\ [k \in 1..Len(gets) |-> gets[k].year] = years
              /\ returned[i].df = SiteFrame(RowsOfGets(gets))

\* A site's frame is returned after one year failed and another gave rows
C1_Witness ==
    /\ returned # <<>>
    /\ Last(returned).df # <<>>
    /\ \E k \in 1..Len(log) : IsFailedGet(log[k]) /\ log[k].site = Last(returned).site
                              /\ log[k].pass = Last(returned).pass

\* C2: a response whose parameter mapping is empty gives no row and the run
\* goes on: the process does not end with status 1 because of it.
C2_EmptyMappingGoesOn ==
    (log # <<>> /\ IsEmptyGet(Last(log))) => pc # "crashed" /\ exitCode # Some(1)

NoTwoRowsShareSiteAndDate(df) ==
    \A i, j \in 1..Len(df) :
        (df[i].site_code = df[j].site_code /\ df[i].date = df[j].date) => i = j

\* C3: no two rows of a site's frame, and no two rows of the combined file,
\* share the site code and the date, whatever the year list.
C3_OneRowPerSiteAndDate ==
    /\ \A i \in 1..Len(returned) : NoTwoRowsShareSiteAndDate(returned[i].df)
    /\ combined # None => NoTwoRowsShareSiteAndDate(TheValue(combined))

\* C5: a site's frame is strictly ascending by date, and the combined file is
\* ascending by (site code, date).
C5_Sorted ==
    /\ \A i \in 1..Len(returned) :
          LET df == returned[i].df
          IN  \A k \in 1..(Len(df) - 1) : KeyLess(df[k].date, df[k + 1].date)
    /\ combined # None =>
          LET df == TheValue(combined)
          IN  \A k \in 1..(Len(df) - 1) :
                  ~KeyLess(SiteDateKey(df[k + 1]), SiteDateKey(df[k]))

\* The parameters of the response ProcessRows worked on
Processed == ParametersOf(TheValue(raw_data))

\* C4: in every row each of the ten weather columns is there; it holds the
\* response's value for the row's date when that value is not -999, null when
\* the value is -999, and null when the response lacks the parameter; a
\* response with parameters raises no error.
C4_WeatherColumns ==
    (pc \in {"finish_site", "crashed"} /\ raw_data # None /\ Processed # <<>>) =>
        /\ pc = "finish_site"
        /\ \A i \in 1..Len(all_data) :
              LET row == all_data[i]
              IN  /\ WeatherCols \subseteq DOMAIN row
                  /\ \A m \in 1..Len(param_mapping) :
                        LET nasa_param == param_mapping[m].key
                            cell == row[param_mapping[m].val]
                        IN  IF ~Has(Processed, nasa_param) THEN cell = None
                            ELSE LET series == Item(Processed, nasa_param)
                                 IN  Has(series, row.date) =>
                                        IF Item(series, row.date) = MissingValue
                                        THEN cell = None
                                        ELSE cell = Some(Item(series, row.date))

\* A row with a copied value, a -999 turned to null, and a parameter the
\* response lacks
C4_Witness ==
    /\ pc = "finish_site"
    /\ raw_data # None
    /\ ~Has(Processed, "T2M")
    /\ \E i, j \in 1..Len(all_data) :
          /\ all_data[i].precipitation_mm = Some(7)
          /\ all_data[j].precipitation_mm = None
          /\ Get(Item(Processed, "PRECTOTCORR"), all_data[j].date) = Some(MissingValue)
          /\ all_data[i].air_temp_c = None

\* C9: the rows of a response are one per date key of its first parameter, in
\* the order of the keys; a date only a later parameter has gives no row, and a
\* mapped parameter without the row's date gives a null column, not an error.
C9_DatesOfFirstParameter ==
    (pc \in {"finish_site", "crashed"} /\ raw_data # None /\ Processed # <<>>) =>
        /\ pc = "finish_site"
        /\ [i \in 1..Len(all_data) |-> all_data[i].date] = Keys(Processed[1].val)
        /\ \A i \in 1..Len(all_data), m \in 1..Len(param_mapping) :
              (/\ Has(Processed, param_mapping[m].key)
               /\ ~Has(Item(Processed, param_mapping[m].key), all_data[i].date))
              => all_data[i][param_mapping[m].val] = None

\* The second parameter has a date the first has not, and lacks a date of the first
C9_Witness ==
    /\ pc = "finish_site"
    /\ raw_data # None
    /\ Len(Processed) = 2
    /\ Processed[2].key = "T2M"
    /\ \E d \in Range(Keys(Processed[2].val)) : d \notin Range(Keys(Processed[1].val))
    /\ \E i \in 1..Len(all_data) : ~Has(Processed[2].val, all_data[i].date)

\* The (site, year) pairs of one pass, in configured order: site by site,
\* and within a site year by year
PairsOfPass ==
    [k \in 1..(Len(sites) * Len(years)) |->
        [site |-> sites[((k - 1) \div Len(years)) + 1],
         year |-> years[((k - 1) % Len(years)) + 1]]]

\* The pairs of a run: fetch_all_data's pass, then create_combined_file's
PairsOfRun ==
    LET pairs == PairsOfPass
        n == Len(pairs)
    IN  [k \in 1..(2 * n) |->
            IF k <= n
            THEN [pass |-> "fetch_all_data", site |-> pairs[k].site, year |-> pairs[k].year]
            ELSE [pass |-> "create_combined_file", site |-> pairs[k - n].site,
                  year |-> pairs[k - n].year]]

\* C6: the sleeps and the GETs alternate, a sleep of 1 before each GET, also
\* after a failed GET; the k-th GET is for the k-th pair of the run in
\* configured order, so that no pair is fetched twice in a pass or retried;
\* a run that completes has fetched every pair of both passes.
C6_SequentialAndPaced ==
    LET pairs == PairsOfRun
    IN  /\ Len(log) <= 2 * Len(pairs)
        /\ \A k \in 1..Len(log) :
              LET pair == pairs[(k + 1) \div 2]
              IN  /\ log[k].op = (IF k % 2 = 1 THEN "sleep" ELSE "get")
                  /\ log[k].op = "sleep" => log[k].arg = 1
                  /\ log[k].pass = pair.pass
                  /\ log[k].site = pair.site
                  /\ log[k].year = pair.year
        /\ pc = "fetch" <=> (Len(log) % 2 = 1 /\ pc # "interrupted")
        /\ pc = "done" => Len(log) = 2 * Len(pairs)

\* A GET has failed and the next pair was fetched after a sleep
C6_Witness ==
    \E k \in 1..Len(log) :
        /\ IsFailedGet(log[k])
        /\ k + 2 <= Len(log)
        /\ log[k + 1].op = "sleep"
        /\ log[k + 2].op = "get"

\* The frames _process_site_data returned in a pass
FramesOf(p) ==
    LET InPass(r) == r.pass = p
    IN  SelectSeq(returned, InPass)

\* C7: a site whose fetches all fail gets an empty frame, which is no error:
\* the run goes on with the next site; the site's file is written exactly when
\* its frame has rows, and the combined file is written exactly when main()
\* completes and a site's frame of the second pass has rows.
C7_FilesOnlyForRows ==
    /\ \A i \in 1..Len(returned) :
          LET gets == GetsOf(returned[i].pass, returned[i].site)
          IN  (\A k \in 1..Len(gets) : IsFailedGet(gets[k])) => returned[i].df = <<>>
    /\ (/\ returned # <<>>
        /\ Last(returned).df = <<>>
        /\ Last(log).pass = Last(returned).pass
        /\ Last(log).site = Last(returned).site)
       => pc \in {"sleep", "combine", "done", "interrupted"} /\ exitCode # Some(1)
    /\ \A s \in SiteCodes :
          LET frames == FramesOf("fetch_all_data")
          IN  /\ files[s] # None <=>
                     \E i \in 1..Len(frames) : frames[i].site = s /\ frames[i].df # <<>>
              /\ \A i \in 1..Len(frames) :
                     (frames[i].site = s /\ frames[i].df # <<>>) => files[s] = Some(frames[i].df)
    /\ combined # None <=>
          /\ pc = "done"
          /\ \E i \in 1..Len(returned) :
                returned[i].pass = "create_combined_file" /\ returned[i].df # <<>>

\* main() completed: a site whose fetches all failed has no file, another
\* site has one, and the combined file is written
C7_Witness ==
    /\ pc = "done"
    /\ combined # None
    /\ \E s, t \in Range(sites) :
          /\ files[s] = None
          /\ files[t] # None
          /\ \A k \in 1..Len(GetsOf("fetch_all_data", s)) :
                IsFailedGet(GetsOf("fetch_all_data", s)[k])

\* C8: a configuration that does not load ends the process with status 1
\* before any fetch and without any file; a completed run and an interrupted
\* one end with status 0; an exception that reaches main() ends with status 1.
C8_ExitStatus ==
    /\ pc = "config_error" =>
          /\ exitCode = Some(1)
          /\ log = <<>>
          /\ \A s \in SiteCodes : files[s] = None
          /\ combined = None
    /\ pc = "done" => exitCode = Some(0)
    /\ pc = "interrupted" => exitCode = Some(0)
    /\ pc = "crashed" => exitCode = Some(1)
    /\ pc \notin Ended => exitCode = None

\* The user interrupted a fetch after a file was written
C8_Witness ==
    /\ pc = "interrupted"
    /\ log # <<>>
    /\ Last(log).op = "sleep"
    /\ \E s \in SiteCodes : files[s] # None

RowsIn(df) == Range(df)

FileRows == UNION {RowsIn(TheValue(files[s])) : s \in {t \in SiteCodes : files[t] # None}}

CombinedRows == IF combined = None THEN {} ELSE RowsIn(TheValue(combined))

CombinedMatchesFiles ==
    /\ CombinedRows = FileRows
    /\ \A s \in SiteCodes :
          (\E r \in CombinedRows : r.site_code = s) <=> files[s] # None

\* Every pair's fetch returned the same in both passes
SameInBothPasses ==
    LET gets == SelectSeq(log, LAMBDA e : e.op = "get")
        n == Len(PairsOfPass)
    IN  /\ Len(gets) = 2 * n
        /\ \A k \in 1..n : gets[k].result = gets[n + k].result

\* C10 as stated: after a full run the rows of the combined file are those of
\* the per-site files, and a site is in the combined file exactly when it has
\* a file, whatever each fetch returned in each pass.
C10_CombinedMatchesFilesAlways ==
    pc = "done" => CombinedMatchesFiles

\* C10 as amended: after a full run in which every pair's fetch returned the
\* same in both passes, the rows of the combined file are those of the
\* per-site files, and a site is in the combined file exactly when it has a
\* file.
C10_CombinedMatchesFilesWhenSame ==
    (pc = "done" /\ SameInBothPasses) => CombinedMatchesFiles

\* A full run with the same results in both passes and both sites in the
\* combined file
C10_Witness ==
    /\ pc = "done"
    /\ SameInBothPasses
    /\ Len(sites) = 2
    /\ \A s \in Range(sites) : files[s] # None
    /\ combined # None

====
